---- MODULE Spec2Model ----
(***************************************************************************)
(* Model of website_chatbot.py: WebsiteScraper (page retrieval and the six *)
(* field extractors over one shared, mutable BeautifulSoup tree), Chatbot  *)
(* (context formatting, prompt assembly, history), ConsoleInterface (the   *)
(* session loop) and main() (the startup sequence).                        *)
(*                                                                         *)
(* A Python str is a sequence of tokens.  A token is one character or an   *)
(* atomic run of non-blank characters; " " and "\n" are the blank tokens.  *)
(* Non-ASCII glyphs of the source's literals are left out of the tokens.   *)
(***************************************************************************)
EXTENDS Integers, Sequences, FiniteSets, TLC

VARIABLES
    pc,                   \* position of main() / scrape_website() / run()
    exit_status,          \* -1 while the process runs, else its exit status
    api_key,              \* main: api_key
    url,                  \* main: url
    page,                 \* the document the web server holds for the URL
    fetched,              \* scrape_website: how session.get ended
    scrape_error,         \* scrape_website: the except clause that ran
    soup,                 \* scrape_website: the parsed tree (mutable)
    content,              \* scrape_website: the dict being built
    website_content,      \* main: what scrape_website returned
    chatbot,              \* main: whether Chatbot(api_key) was constructed
    context,              \* Chatbot.website_content
    conversation_history, \* Chatbot.conversation_history
    running,              \* ConsoleInterface.running
    event,                \* get_user_input: what input() met last
    user_input,           \* run: user_input of the current iteration
    messages,             \* get_response: the list handed to the provider
    returned,             \* run: response, what get_response returned last
    last_call             \* the last Chatbot method run() invoked, and its outcome

vars == <<pc, exit_status, api_key, url, page, fetched, scrape_error, soup,
          content, website_content, chatbot, context, conversation_history,
          running, event, user_input, messages, returned, last_call>>

-----------------------------------------------------------------------------
(* Bounds of the model *)

MaxBlocks == 2        \* body elements of a generated document
MaxExchanges == 6     \* a question is read only while the history holds at
                      \* most MaxExchanges exchanges (two entries each)
MaxAnchors == 17      \* anchors of a link page
MaxHeadings == 22     \* headings of a heading page
MaxOver == 1          \* characters a long page's text goes past a limit

-----------------------------------------------------------------------------
(* Program constants *)

HistoryWindow == 10       \* conversation_history[-10:]
MainContentLimit == 3000  \* text[:3000]
FullTextLimit == 5000     \* text[:5000]
HeadingsLimit == 20       \* headings[:20]
LinksLimit == 15          \* find_all('a', href=True)[:15]

-----------------------------------------------------------------------------
(* Python str and list operations *)

None == <<"<None>">>

Min(a, b) == IF a < b THEN a ELSE b
Max(a, b) == IF a > b THEN a ELSE b

\* s[:n]
Take(s, n) == SubSeq(s, 1, Min(Len(s), n))

\* s[-n:]  (n > 0)
LastN(s, n) == SubSeq(s, Max(1, Len(s) - n + 1), Len(s))

IsBlank(t) == t \in {" ", "\n"}

RECURSIVE LStrip(_)
LStrip(s) == IF s # <<>> /\ IsBlank(Head(s)) THEN LStrip(Tail(s)) ELSE s

RECURSIVE RStrip(_)
RStrip(s) ==
    IF s # <<>> /\ IsBlank(s[Len(s)]) THEN RStrip(SubSeq(s, 1, Len(s) - 1)) ELSE s

\* s.strip()
Strip(s) == RStrip(LStrip(s))

\* sep.join(parts)
RECURSIVE Join(_, _)
Join(sep, parts) ==
    IF parts = <<>> THEN <<>>
    ELSE IF Len(parts) = 1 THEN parts[1]
    ELSE parts[1] \o sep \o Join(sep, Tail(parts))

\* s.split('\n')
RECURSIVE SplitLines(_)
SplitLines(s) ==
    IF \A i \in 1..Len(s) : s[i] # "\n" THEN <<s>>
    ELSE LET k == CHOOSE i \in 1..Len(s) :
                      s[i] = "\n" /\ \A j \in 1..(i - 1) : s[j] # "\n"
         IN  <<SubSeq(s, 1, k - 1)>> \o SplitLines(SubSeq(s, k + 1, Len(s)))

\* s.startswith(t), t one token
StartsWith(s, t) == s # <<>> /\ s[1] = t

LowerTok(t) ==
    CASE t = "EXIT" -> "exit"
      [] t = "Quit" -> "quit"
      [] t = "CLEAR" -> "clear"
      [] OTHER -> t

\* s.lower()
Lower(s) == [i \in 1..Len(s) |-> LowerTok(s[i])]

-----------------------------------------------------------------------------
(* Documents: what the parser builds from a page.                          *)
(* A tree is a sequence of element nodes in document order; parent is the  *)
(* index of the enclosing element, 0 for the top of the document; text is  *)
(* the element's own string child.  Absent attributes are None.            *)

Node(tag, parent, text, href, name, cont, class) ==
    [tag |-> tag, parent |-> parent, text |-> text, href |-> href,
     name |-> name, content |-> cont, class |-> class]

Element(tag, parent, text) == Node(tag, parent, text, None, None, None, None)

\* the leaves a generated body element can be
Leaves ==
    { [tag |-> "h1", text |-> <<" ", "Welcome">>, href |-> None],
      [tag |-> "a", text |-> <<"About">>, href |-> <<"/about">>],
      [tag |-> "a", text |-> <<"Top">>, href |-> <<"#", "top">>],
      [tag |-> "p", text |-> <<"Hello", "\n", " ", "\n", "world", " ">>, href |-> None] }

\* the elements a leaf can be wrapped in ("none": directly in the body)
Wraps ==
    { [tag |-> "none", class |-> None],
      [tag |-> "header", class |-> None],
      [tag |-> "nav", class |-> None],
      [tag |-> "footer", class |-> None],
      [tag |-> "main", class |-> None],
      [tag |-> "div", class |-> <<"page-Content">>] }

Blocks == [wrap : Wraps, leaf : Leaves]

Titles == {None, <<" ", "Acme", "\n">>}
Descriptions == {None, <<"Acme", " ", "Corp", " ", "home">>}

BlockSeqs(n) == UNION {[1..k -> Blocks] : k \in 0..n}

\* a page: optional title, optional meta description, and a body of at
\* most n blocks
Pages(n) ==
    [title : Titles, description : Descriptions, body : {TRUE},
     blocks : BlockSeqs(n)]

\* the nodes of one block under parent p, the first of them at index at
BlockNodes(b, p, at) ==
    IF b.wrap.tag = "none"
    THEN <<Node(b.leaf.tag, p, b.leaf.text, b.leaf.href, None, None, None)>>
    ELSE <<Node(b.wrap.tag, p, <<>>, None, None, None, b.wrap.class),
           Node(b.leaf.tag, at, b.leaf.text, b.leaf.href, None, None, None)>>

RECURSIVE BlocksNodes(_, _, _)
BlocksNodes(bs, p, at) ==
    IF bs = <<>> THEN <<>>
    ELSE LET ns == BlockNodes(Head(bs), p, at)
         IN  ns \o BlocksNodes(Tail(bs), p, at + Len(ns))

\* BeautifulSoup(response.content, 'html.parser'): html.parser adds no
\* html, head or body element of its own
Parse(d) ==
    LET head == (IF d.title = None THEN <<>> ELSE <<Element("title", 0, d.title)>>)
                \o (IF d.description = None THEN <<>>
                    ELSE <<Node("meta", 0, <<>>, None, <<"description">>,
                                d.description, None)>>)
        body == IF d.body THEN <<Element("body", 0, <<>>)>> ELSE <<>>
        top  == IF d.body THEN Len(head) + 1 ELSE 0
        ns   == head \o body
                \o BlocksNodes(d.blocks, top, Len(head) + Len(body) + 1)
    IN  [nodes |-> ns, alive |-> 1..Len(ns)]

NoSoup == [nodes |-> <<>>, alive |-> {}]

-----------------------------------------------------------------------------
(* BeautifulSoup operations on a tree t = [nodes, alive] *)

\* j is i or lies inside element i (i = 0: the whole document)
RECURSIVE Inside(_, _, _)
Inside(t, j, i) ==
    \/ i = 0
    \/ j = i
    \/ j # 0 /\ t.nodes[j].parent # 0 /\ Inside(t, t.nodes[j].parent, i)

\* the indices of a set, ascending (document order)
RECURSIVE Ascending(_)
Ascending(S) ==
    IF S = {} THEN <<>>
    ELSE LET m == CHOOSE x \in S : \A y \in S : x <= y
         IN  <<m>> \o Ascending(S \ {m})

\* the elements of the parsed document with this tag
Tagged(t, tag) == {i \in DOMAIN t.nodes : t.nodes[i].tag = tag}

\* soup.find_all(...): those of the matching elements still in the tree, in
\* document order
FindAll(t, matching) == Ascending(t.alive \cap matching)

\* soup.find(...): the first match, 0 for None
Find(t, matching) ==
    LET all == FindAll(t, matching) IN IF all = <<>> THEN 0 ELSE all[1]

\* for e in soup(tags): e.decompose()    -- in place
Decompose(t, tags) ==
    [t EXCEPT !.alive =
        {j \in t.alive :
            ~ \E i \in t.alive : t.nodes[i].tag \in tags /\ Inside(t, j, i)}]

\* the stripped, non-empty strings of the elements js, in order
RECURSIVE StrippedStrings(_, _)
StrippedStrings(t, js) ==
    IF js = <<>> THEN <<>>
    ELSE LET str == Strip(t.nodes[Head(js)].text)
         IN  (IF str # <<>> THEN <<str>> ELSE <<>>) \o StrippedStrings(t, Tail(js))

\* element.get_text(separator=sep, strip=True)
GetText(t, i, sep) ==
    Join(sep, StrippedStrings(t, Ascending({j \in t.alive : Inside(t, j, i)})))

\* 'content' in x.lower(), x one class name
ContainsContent(cls) == cls \in {"content", "page-Content", "CONTENT-wrap"}

\* class_=lambda x: x and 'content' in x.lower()
ClassMatches(n) ==
    n.class # None /\ \E k \in 1..Len(n.class) : ContainsContent(n.class[k])

-----------------------------------------------------------------------------
(* WebsiteScraper: the field extractors.  Each takes the tree as it finds  *)
(* it and gives the field's value; the two that strip elements also give   *)
(* the tree as they leave it.                                              *)

TitleSentinel == <<"No title found">>
DescriptionSentinel == <<"No description found">>
MainContentSentinel == <<"No main content found">>
HeadingsSentinel == <<"No headings found">>
LinksSentinel == <<"No links found">>
FullTextSentinel == <<"No text found">>

\* _extract_title
ExtractTitle(t) ==
    LET title_tag == Find(t, Tagged(t, "title"))
    IN  IF title_tag # 0 THEN GetText(t, title_tag, <<>>) ELSE TitleSentinel

\* _extract_description
ExtractDescription(t) ==
    LET meta_desc ==
            Find(t, {i \in Tagged(t, "meta") : t.nodes[i].name = <<"description">>})
    IN  IF meta_desc # 0 /\ t.nodes[meta_desc].content \notin {None, <<>>}
        THEN t.nodes[meta_desc].content
        ELSE DescriptionSentinel

MainContentStripped == {"script", "style", "nav", "footer", "header"}

\* _extract_main_content, lines 88-89: the tree after the removal
StripForMainContent(t) == Decompose(t, MainContentStripped)

\* article looked for before main
MainContentElementArticleFirst(t) ==
    LET main == Find(t, Tagged(t, "main"))
        article == Find(t, Tagged(t, "article"))
        content_div == Find(t, {i \in Tagged(t, "div") : ClassMatches(t.nodes[i])})
        body == Find(t, Tagged(t, "body"))
    IN  IF article # 0 THEN article
        ELSE IF main # 0 THEN main
        ELSE IF content_div # 0 THEN content_div
        ELSE body

\* _extract_main_content, lines 92-97, on the tree after the removal: the
\* element the text is taken from, 0 for None
MainContentElement(t) ==
    LET main == Find(t, Tagged(t, "main"))
        article == Find(t, Tagged(t, "article"))
        content_div == Find(t, {i \in Tagged(t, "div") : ClassMatches(t.nodes[i])})
        body == Find(t, Tagged(t, "body"))
    IN  IF main # 0 THEN main
        ELSE IF article # 0 THEN article
        ELSE IF content_div # 0 THEN content_div
        ELSE body

\* the text kept whole
MainContentOfUncut(t) ==
    LET main_content == MainContentElement(t)
        text == GetText(t, main_content, <<"\n">>)
    IN  IF main_content # 0
        THEN (IF text # <<>> THEN text ELSE MainContentSentinel)
        ELSE MainContentSentinel

\* _extract_main_content, lines 92-103, on the tree after the removal
MainContentOf(t) ==
    LET main_content == MainContentElement(t)
        text == GetText(t, main_content, <<"\n">>)
    IN  IF main_content # 0
        THEN (IF text # <<>> THEN Take(text, MainContentLimit) ELSE MainContentSentinel)
        ELSE MainContentSentinel

\* the entries of one heading level: f"H{level}: {heading.get_text(strip=True)}"
RECURSIVE HeadingEntries(_, _, _)
HeadingEntries(t, level, hs) ==
    IF hs = <<>> THEN <<>>
    ELSE <<(<<"H", level, ": ">> \o GetText(t, Head(hs), <<>>))>>
         \o HeadingEntries(t, level, Tail(hs))

LevelDigit(level) == <<"1", "2", "3", "4", "5", "6">>[level]

\* for level in range(1, 7): for heading in soup.find_all(f'h{level}')
RECURSIVE HeadingsFrom(_, _)
HeadingsFrom(t, level) ==
    IF level > 6 THEN <<>>
    ELSE HeadingEntries(t, LevelDigit(level),
                        FindAll(t, Tagged(t, <<"h1", "h2", "h3", "h4", "h5", "h6">>[level])))
         \o HeadingsFrom(t, level + 1)

\* _extract_headings
ExtractHeadings(t) ==
    LET headings == HeadingsFrom(t, 1)
    IN  IF headings # <<>> THEN Join(<<"\n">>, Take(headings, HeadingsLimit))
        ELSE HeadingsSentinel

\* the loop body of _extract_links over the anchors as
RECURSIVE LinkEntries(_, _)
LinkEntries(t, as) ==
    IF as = <<>> THEN <<>>
    ELSE LET text == GetText(t, Head(as), <<>>)
             href == t.nodes[Head(as)].href
         IN  (IF text # <<>> /\ ~ StartsWith(href, "#")
              THEN <<(text \o <<": ">> \o href)>> ELSE <<>>)
             \o LinkEntries(t, Tail(as))

\* _extract_links
ExtractLinks(t) ==
    LET with_href == {i \in Tagged(t, "a") : t.nodes[i].href # None}
        links == LinkEntries(t, Take(FindAll(t, with_href), LinksLimit))
    IN  IF links # <<>> THEN Join(<<"\n">>, links) ELSE LinksSentinel

FullTextStripped == {"script", "style", "nav", "footer"}

\* _extract_full_text, lines 126-127: the tree after the removal
StripForFullText(t) == Decompose(t, FullTextStripped)

\* [line.strip() for line in lines if line.strip()]
RECURSIVE StrippedLines(_)
StrippedLines(lines) ==
    IF lines = <<>> THEN <<>>
    ELSE (IF Strip(Head(lines)) # <<>> THEN <<Strip(Head(lines))>> ELSE <<>>)
         \o StrippedLines(Tail(lines))

\* _extract_full_text, lines 129-131, on the tree after the removal: the
\* text with its lines stripped and the empty ones dropped
FullTextClean(t) ==
    Join(<<"\n">>, StrippedLines(SplitLines(GetText(t, 0, <<"\n">>))))

\* _extract_full_text, lines 129-132, on the tree after the removal
FullTextOf(t) ==
    LET text == FullTextClean(t)
    IN  IF text # <<>> THEN Take(text, FullTextLimit) ELSE FullTextSentinel

-----------------------------------------------------------------------------
(* Chatbot *)

\* a dict is a function from its keys; {} is the empty function
EmptyDict == <<>>

\* d.get(k)
Get(d, k) == IF k \in DOMAIN d THEN d[k] ELSE None

\* truth value of d.get(k): neither None nor ''
Truthy(v) == v # None /\ v # <<>>

\* a field that is its "not found" value left out like an absent one
FormatContentLeavingSentinelsOut(c) ==
    LET context_parts ==
            (IF Truthy(Get(c, "title")) /\ c["title"] # TitleSentinel
             THEN <<(<<"Title: ">> \o c["title"])>> ELSE <<>>)
         \o (IF Truthy(Get(c, "description")) /\ c["description"] # DescriptionSentinel
             THEN <<(<<"Description: ">> \o c["description"])>> ELSE <<>>)
         \o (IF Truthy(Get(c, "headings")) /\ c["headings"] # HeadingsSentinel
             THEN <<(<<"\n", "Headings:", "\n">> \o c["headings"])>> ELSE <<>>)
         \o (IF Truthy(Get(c, "main_content")) /\ c["main_content"] # MainContentSentinel
             THEN <<(<<"\n", "Main Content:", "\n">> \o c["main_content"])>> ELSE <<>>)
         \o (IF Truthy(Get(c, "links")) /\ c["links"] # LinksSentinel
             THEN <<(<<"\n", "Important Links:", "\n">> \o c["links"])>> ELSE <<>>)
    IN  Join(<<"\n">>, context_parts)

\* _format_content_for_context
FormatContentForContext(c) ==
    LET context_parts ==
            (IF Truthy(Get(c, "title"))
             THEN <<(<<"Title: ">> \o c["title"])>> ELSE <<>>)
         \o (IF Truthy(Get(c, "description"))
             THEN <<(<<"Description: ">> \o c["description"])>> ELSE <<>>)
         \o (IF Truthy(Get(c, "headings"))
             THEN <<(<<"\n", "Headings:", "\n">> \o c["headings"])>> ELSE <<>>)
         \o (IF Truthy(Get(c, "main_content"))
             THEN <<(<<"\n", "Main Content:", "\n">> \o c["main_content"])>> ELSE <<>>)
         \o (IF Truthy(Get(c, "links"))
             THEN <<(<<"\n", "Important Links:", "\n">> \o c["links"])>> ELSE <<>>)
    IN  Join(<<"\n">>, context_parts)

\* the directive without the website content
SystemMessageWithoutContent(ctx) ==
    <<"You are a helpful chatbot assistant [...] WEBSITE CONTENT:", "\n">>
    \o <<"\n", "INSTRUCTIONS: [...] ONLY the information provided [...]">>

\* get_response, lines 192-203: the directive around the website content
SystemMessage(ctx) ==
    <<"You are a helpful chatbot assistant [...] WEBSITE CONTENT:", "\n">>
    \o ctx
    \o <<"\n", "INSTRUCTIONS: [...] ONLY the information provided [...]">>

Message(role, text) == [role |-> role, content |-> text]

\* conversation_history[:10]
HistorySliceOldest(history) == Take(history, HistoryWindow)

\* conversation_history[-9:]
HistorySliceOdd(history) == LastN(history, HistoryWindow - 1)

\* get_response, line 211: conversation_history[-10:]
HistorySlice(history) == LastN(history, HistoryWindow)

\* get_response, lines 206-214
BuildMessages(ctx, history, question) ==
    <<Message("system", SystemMessage(ctx))>>
    \o HistorySlice(history)
    \o <<Message("user", question)>>

\* the stored history held to the window of the prompt
AppendExchangeCapped(history, question, answer) ==
    LastN(history \o <<Message("user", question), Message("assistant", answer)>>,
          HistoryWindow)

\* the question appended, the answer not
AppendQuestionOnly(history, question, answer) ==
    history \o <<Message("user", question)>>

\* get_response, lines 229-230
AppendExchange(history, question, answer) ==
    history \o <<Message("user", question), Message("assistant", answer)>>

\* the failure reason returned bare
ErrorResponseUnmarked(e) == e

\* get_response, line 235
ErrorResponse(e) == <<"Error generating response: ">> \o e

\* the history left as it is
ClearHistoryKeeps(history) == history

\* only the last exchange dropped
ClearHistoryDropsLast(history) ==
    IF Len(history) >= 2 THEN SubSeq(history, 1, Len(history) - 2) ELSE <<>>

\* clear_history
ClearHistory(history) == <<>>

-----------------------------------------------------------------------------
(* The environment: the credential, the console, the web server, the       *)
(* completion provider                                                      *)

\* os.getenv('OPENAI_API_KEY'): unset, set to '', or set
ApiKeys == {None, <<>>, <<"sk-test">>}

\* what the user types at the URL prompt
UrlLines == {<<" ">>, <<"example.com", " ">>, <<"https://", "example.com">>}

\* the pages served in a whole session: an empty document, a blank one, and
\* the Acme page (title, description, a heading, a fragment link, a link)
EmptyPage == [title |-> None, description |-> None, body |-> FALSE, blocks |-> <<>>]
BlankPage == [title |-> <<" ">>, description |-> <<>>, body |-> TRUE, blocks |-> <<>>]
AcmePage ==
    [title |-> <<" ", "Acme", "\n">>,
     description |-> <<"Acme", " ", "Corp", " ", "home">>,
     body |-> TRUE,
     blocks |->
        << [wrap |-> [tag |-> "header", class |-> None],
            leaf |-> [tag |-> "h1", text |-> <<" ", "Welcome">>, href |-> None]],
           [wrap |-> [tag |-> "nav", class |-> None],
            leaf |-> [tag |-> "a", text |-> <<"Top">>, href |-> <<"#", "top">>]],
           [wrap |-> [tag |-> "none", class |-> None],
            leaf |-> [tag |-> "a", text |-> <<"About">>, href |-> <<"/about">>]] >>]
SessionPages == {EmptyPage, BlankPage, AcmePage}

\* the pages scrape_website is run on
ScrapePages == Pages(MaxBlocks) \cup SessionPages

\* a block directly in the body
Plain(leaf) == [wrap |-> [tag |-> "none", class |-> None], leaf |-> leaf]

BodyOf(blocks) ==
    [title |-> None, description |-> None, body |-> TRUE, blocks |-> blocks]

\* the anchors of the link pages: a link, a link to a fragment of the page,
\* a link whose text is blank, an anchor without href; i is the anchor's
\* place on the page
AnchorKinds == {"link", "fragment", "blank", "nohref"}

Anchor(kind, i) ==
    [tag |-> "a",
     text |-> IF kind = "blank" THEN <<" ">> ELSE <<"L", ToString(i)>>,
     href |-> CASE kind = "nohref" -> None
                [] kind = "fragment" -> <<"#", ToString(i)>>
                [] OTHER -> <<"/p", ToString(i)>>]

\* a body of a anchors of kind k1 followed by b anchors of kind k2
LinksPage(a, k1, b, k2) ==
    BodyOf([i \in 1..(a + b) |-> Plain(Anchor(IF i <= a THEN k1 ELSE k2, i))])

LinkPages ==
    {LinksPage(a, k1, MaxAnchors - a, k2) :
        a \in 0..MaxAnchors, k1 \in AnchorKinds, k2 \in AnchorKinds}

\* the heading of level l at place i of a page
Heading(l, i) ==
    [tag |-> <<"h1", "h2", "h3", "h4", "h5", "h6">>[l],
     text |-> <<"T", ToString(i)>>, href |-> None]

\* a body of a headings of level l1 followed by b headings of level l2
HeadingsPage(a, l1, b, l2) ==
    BodyOf([i \in 1..(a + b) |-> Plain(Heading(IF i <= a THEN l1 ELSE l2, i))])

\* one heading short of the limit, and MaxHeadings of them
HeadingPages ==
    UNION { {HeadingsPage(a, l1, n - a, l2) :
                a \in 0..n, l1 \in 1..6, l2 \in 1..6} :
            n \in {HeadingsLimit - 1, MaxHeadings} }

\* a page whose title is t and whose body is one paragraph of n characters
\* "x", blank ones at both ends and a blank line before its last line
LongPage(t, n) ==
    [title |-> t, description |-> None, body |-> TRUE,
     blocks |-> << Plain([tag |-> "p",
                          text |-> <<" ">> \o [i \in 1..n |-> "x"]
                                   \o <<"\n", " ", "\n", "y", " ">>,
                          href |-> None]) >>]

\* text lengths around the two limits
LongPages ==
    {LongPage(t, lim + d) :
        t \in {None, <<"T">>}, lim \in {MainContentLimit, FullTextLimit},
        d \in (0 - 5)..MaxOver}

\* the elements the main content can be looked for in, and two it is not
MainWraps ==
    { [tag |-> "main", class |-> None],
      [tag |-> "article", class |-> None],
      [tag |-> "div", class |-> <<"box", "page-Content">>],
      [tag |-> "section", class |-> <<"content">>],
      [tag |-> "div", class |-> <<"sidebar">>],
      [tag |-> "none", class |-> None] }

\* a body of the wraps ws, each around a paragraph that names its place,
\* the paragraph at place e blank (e = 0: none)
MainPage(ws, e) ==
    BodyOf([i \in 1..Len(ws) |->
              [wrap |-> ws[i],
               leaf |-> [tag |-> "p",
                         text |-> IF i = e THEN <<" ">>
                                  ELSE <<"text", ToString(i), " ">>,
                         href |-> None]]])

MainPages ==
    {MainPage(ws, e) :
        ws \in UNION {[1..k -> MainWraps] : k \in 0..MaxBlocks},
        e \in 0..MaxBlocks}

\* the pages the extractors are run on
ExtractPages ==
    ScrapePages \cup LinkPages \cup HeadingPages \cup LongPages \cup MainPages

\* how session.get(url, timeout=10) ends: a transport error, or a response
\* with its final status (requests follows a redirect that names a
\* Location; a 304 is final)
TransportErrors == {"ConnectionError", "Timeout"}
Statuses == {200, 304, 404, 503}

NotFetched == [error |-> "pending", status |-> 0]
Raised(e) == [error |-> e, status |-> 0]
Response(status) == [error |-> "none", status |-> status]

\* raise_for_status left out
RaisesForStatusNever(status) == FALSE

\* response.raise_for_status(): raises HTTPError for 4xx and 5xx
RaisesForStatus(status) == 400 <= status /\ status < 600

\* what the user types at the question prompt, and the signals
QuestionLines ==
    { <<"exit">>, <<" ", "Quit", "\n">>, <<"CLEAR", " ">>, <<"clear">>, <<>>,
      <<" ", " ">>, <<"q1", " ">>, <<"q2">> }
Signals == {"EOFError", "KeyboardInterrupt"}

\* what one call of input() meets: a line, or a signal
ConsoleEvents ==
    {[signal |-> "none", line |-> l] : l \in QuestionLines}
    \cup {[signal |-> sig, line |-> <<>>] : sig \in Signals}

NoEvent == [signal |-> "none", line |-> None]

\* the signals taken for an empty line
GetUserInputEmptyOnSignal(ev) == IF ev.signal \in Signals THEN <<>> ELSE Strip(ev.line)

\* get_user_input: input(...).strip(), "exit" on EOFError / KeyboardInterrupt
GetUserInput(ev) == IF ev.signal \in Signals THEN <<"exit">> ELSE Strip(ev.line)

\* the directives compared as typed
DispatchAsTyped(ui) ==
    IF ui \in {<<"exit">>, <<"quit">>} THEN "exit"
    ELSE IF ui = <<"clear">> THEN "clear"
    ELSE IF ui = <<>> THEN "empty"
    ELSE "answer"

\* run, lines 293-303: the branch user_input selects
Dispatch(ui) ==
    IF Lower(ui) \in {<<"exit">>, <<"quit">>} THEN "exit"
    ELSE IF Lower(ui) = <<"clear">> THEN "clear"
    ELSE IF ui = <<>> THEN "empty"
    ELSE "answer"

\* response.choices[0].message.content of a completion that arrived
Completions == {<<" ", "a1", "\n">>}

\* str(e) of what the completion call, or reading its response, raises
ProviderFailures ==
    { <<"Request timed out.">>,
      <<"'NoneType' object has no attribute 'strip'">> }

-----------------------------------------------------------------------------
(* main(), lines 346-360 *)

InitOn(pages) ==
    /\ pc = "setup"
    /\ exit_status = -1
    /\ api_key = None
    /\ url = None
    /\ page \in pages
    /\ fetched = NotFetched
    /\ scrape_error = "none"
    /\ soup = NoSoup
    /\ content = EmptyDict
    /\ website_content = None
    /\ chatbot = FALSE
    /\ context = <<>>
    /\ conversation_history = <<>>
    /\ running = FALSE
    /\ event = NoEvent
    /\ user_input = None
    /\ messages = <<>>
    /\ returned = None
    /\ last_call = "none"

Init == InitOn(SessionPages)

\* sys.exit(status), or the interpreter ending
Exit(status) == pc' = "exited" /\ exit_status' = status

\* setup_environment and lines 347-349
SetupEnvironment ==
    /\ pc = "setup"
    /\ \E key \in ApiKeys :
          /\ api_key' = key
          /\ IF Truthy(key)
             THEN pc' = "url" /\ UNCHANGED exit_status
             ELSE Exit(1)
    /\ UNCHANGED <<url, page, fetched, scrape_error, soup, content,
                   website_content, chatbot, context, conversation_history,
                   running, event, user_input, messages, returned, last_call>>

\* lines 354-360: one pass of the URL prompt
EnterUrl ==
    /\ pc = "url"
    /\ \E line \in UrlLines :
          LET u == Strip(line)
          IN  IF u # <<>>
              THEN /\ url' = (IF StartsWith(u, "http://") \/ StartsWith(u, "https://")
                              THEN u ELSE <<"https://">> \o u)
                   /\ pc' = "fetch"
              ELSE UNCHANGED <<url, pc>>
    /\ UNCHANGED <<exit_status, api_key, page, fetched, scrape_error, soup,
                   content, website_content, chatbot, context,
                   conversation_history, running, event, user_input, messages,
                   returned, last_call>>

\* line 355: input() raises EOFError, which nothing catches
UrlPromptEnds ==
    /\ pc = "url"
    /\ Exit(1)
    /\ UNCHANGED <<api_key, url, page, fetched, scrape_error, soup, content,
                   website_content, chatbot, context, conversation_history,
                   running, event, user_input, messages, returned, last_call>>

-----------------------------------------------------------------------------
(* WebsiteScraper.scrape_website *)

ScrapeFrame ==
    UNCHANGED <<exit_status, api_key, url, page, chatbot, context,
                conversation_history, running, event, user_input, messages,
                returned, last_call>>

\* lines 66-71: the handler that ran returns {}
ScrapeFails(handler) ==
    /\ scrape_error' = handler
    /\ website_content' = EmptyDict
    /\ pc' = "scraped"
    /\ UNCHANGED <<soup, content>>

\* line 48 raises: the handler of line 66
FetchFails ==
    /\ pc = "fetch"
    /\ \E e \in TransportErrors : fetched' = Raised(e)
    /\ ScrapeFails("RequestException")
    /\ ScrapeFrame

\* lines 48-49: a response arrives and raise_for_status raises (HTTPError
\* is a RequestException)
StatusFails ==
    /\ pc = "fetch"
    /\ \E status \in Statuses :
          /\ RaisesForStatus(status)
          /\ fetched' = Response(status)
    /\ ScrapeFails("RequestException")
    /\ ScrapeFrame

\* lines 48-51: the response passes raise_for_status and is parsed
FetchParses ==
    /\ pc = "fetch"
    /\ \E status \in Statuses :
          /\ ~ RaisesForStatus(status)
          /\ fetched' = Response(status)
    /\ soup' = Parse(page)
    /\ pc' = "title"
    /\ UNCHANGED <<scrape_error, content, website_content>>
    /\ ScrapeFrame

\* lines 48-51: the response passes raise_for_status and the parser raises
\* on its markup: the handler of line 69
ParseRaises ==
    /\ pc = "fetch"
    /\ \E status \in Statuses :
          /\ ~ RaisesForStatus(status)
          /\ fetched' = Response(status)
    /\ ScrapeFails("Exception")
    /\ ScrapeFrame

\* lines 55-60: an extractor raises (recursion depth exceeded on a deep
\* tree): the handler of line 69
ExtractionRaises ==
    /\ pc \in {"title", "description", "main_content", "headings", "links",
               "full_text"}
    /\ ScrapeFails("Exception")
    /\ UNCHANGED fetched
    /\ ScrapeFrame

\* content with one more key
With(c, k, v) == [x \in DOMAIN c \cup {k} |-> IF x = k THEN v ELSE c[x]]

\* line 55
StepTitle ==
    /\ pc = "title"
    /\ content' = With(content, "title", ExtractTitle(soup))
    /\ pc' = "description"
    /\ UNCHANGED <<fetched, scrape_error, soup, website_content>>
    /\ ScrapeFrame

\* line 56
StepDescription ==
    /\ pc = "description"
    /\ content' = With(content, "description", ExtractDescription(soup))
    /\ pc' = "main_content"
    /\ UNCHANGED <<fetched, scrape_error, soup, website_content>>
    /\ ScrapeFrame

\* line 57: strips the shared tree, then reads it
StepMainContent ==
    /\ pc = "main_content"
    /\ soup' = StripForMainContent(soup)
    /\ content' = With(content, "main_content", MainContentOf(soup'))
    /\ pc' = "headings"
    /\ UNCHANGED <<fetched, scrape_error, website_content>>
    /\ ScrapeFrame

\* line 58
StepHeadings ==
    /\ pc = "headings"
    /\ content' = With(content, "headings", ExtractHeadings(soup))
    /\ pc' = "links"
    /\ UNCHANGED <<fetched, scrape_error, soup, website_content>>
    /\ ScrapeFrame

\* line 59
StepLinks ==
    /\ pc = "links"
    /\ content' = With(content, "links", ExtractLinks(soup))
    /\ pc' = "full_text"
    /\ UNCHANGED <<fetched, scrape_error, soup, website_content>>
    /\ ScrapeFrame

\* lines 60-64: strips the shared tree, reads it, and returns the dict
StepFullText ==
    /\ pc = "full_text"
    /\ soup' = StripForFullText(soup)
    /\ content' = With(content, "full_text", FullTextOf(soup'))
    /\ website_content' = content'
    /\ pc' = "scraped"
    /\ UNCHANGED <<fetched, scrape_error>>
    /\ ScrapeFrame

-----------------------------------------------------------------------------
(* main(), lines 368-390 *)

\* lines 368-370
ScrapeFailedExit ==
    /\ pc = "scraped"
    /\ website_content = EmptyDict
    /\ Exit(1)
    /\ UNCHANGED <<api_key, url, page, fetched, scrape_error, soup, content,
                   website_content, chatbot, context, conversation_history,
                   running, event, user_input, messages, returned, last_call>>

\* lines 383-390: Chatbot(api_key), set_website_context, ConsoleInterface(chatbot)
\* and the entry of run(); scrape_website's tree is gone
StartSession ==
    /\ pc = "scraped"
    /\ website_content # EmptyDict
    /\ chatbot' = TRUE
    /\ conversation_history' = <<>>
    /\ context' = FormatContentForContext(website_content)
    /\ running' = TRUE
    /\ soup' = NoSoup
    /\ content' = EmptyDict
    /\ pc' = "loop"
    /\ UNCHANGED <<exit_status, api_key, url, page, fetched, scrape_error,
                   website_content, event, user_input, messages, returned,
                   last_call>>

-----------------------------------------------------------------------------
(* ConsoleInterface.run and Chatbot.get_response *)

LoopFrame ==
    UNCHANGED <<exit_status, api_key, url, page, fetched, scrape_error, soup,
                content, website_content, chatbot, context>>

\* line 290: one call of get_user_input
Read(ev) ==
    /\ event' = ev
    /\ user_input' = GetUserInput(ev)

\* lines 290, 293-295
ReadExit ==
    /\ pc = "loop" /\ running
    /\ \E ev \in ConsoleEvents :
          /\ Dispatch(GetUserInput(ev)) = "exit"
          /\ Read(ev)
    /\ running' = FALSE
    /\ UNCHANGED <<pc, conversation_history, messages, returned, last_call>>
    /\ LoopFrame

\* lines 290, 296-298
ReadClear ==
    /\ pc = "loop" /\ running
    /\ \E ev \in ConsoleEvents :
          /\ Dispatch(GetUserInput(ev)) = "clear"
          /\ Read(ev)
    /\ conversation_history' = ClearHistory(conversation_history)
    /\ last_call' = "clear"
    /\ UNCHANGED <<pc, running, messages, returned>>
    /\ LoopFrame

\* lines 290, 299-300
ReadEmpty ==
    /\ pc = "loop" /\ running
    /\ \E ev \in ConsoleEvents :
          /\ Dispatch(GetUserInput(ev)) = "empty"
          /\ Read(ev)
    /\ UNCHANGED <<pc, running, conversation_history, messages, returned,
                   last_call>>
    /\ LoopFrame

\* lines 290, 301-303 and get_response up to the call of line 219
ReadQuestion ==
    /\ pc = "loop" /\ running
    /\ Len(conversation_history) <= 2 * MaxExchanges
    /\ \E ev \in ConsoleEvents :
          /\ Dispatch(GetUserInput(ev)) = "answer"
          /\ Read(ev)
    /\ messages' = BuildMessages(context, conversation_history, user_input')
    /\ last_call' = "answer"
    /\ pc' = "calling"
    /\ UNCHANGED <<running, conversation_history, returned>>
    /\ LoopFrame

\* lines 226-232, 303-304: the completion arrives and is read
CompletionReturns ==
    /\ pc = "calling"
    /\ \E text \in Completions :
          LET assistant_response == Strip(text)
          IN  /\ conversation_history' =
                    AppendExchange(conversation_history, user_input, assistant_response)
              /\ returned' = assistant_response
    /\ last_call' = "answered"
    /\ messages' = <<>>
    /\ pc' = "loop"
    /\ UNCHANGED <<running, event, user_input>>
    /\ LoopFrame

\* lines 219-226 raise an Exception; lines 234-235, 303-304
CompletionFails ==
    /\ pc = "calling"
    /\ \E e \in ProviderFailures : returned' = ErrorResponse(e)
    /\ last_call' = "failed"
    /\ messages' = <<>>
    /\ pc' = "loop"
    /\ UNCHANGED <<running, event, user_input, conversation_history>>
    /\ LoopFrame

\* KeyboardInterrupt taken by the handler of line 234 like an Exception:
\* str(KeyboardInterrupt()) is ''
CompletionInterruptedFailsSoft ==
    /\ pc = "calling"
    /\ returned' = ErrorResponse(<<>>)
    /\ last_call' = "interrupted"
    /\ messages' = <<>>
    /\ pc' = "loop"
    /\ UNCHANGED <<running, event, user_input, conversation_history>>
    /\ LoopFrame

\* KeyboardInterrupt during the call: not an Exception, so it passes line
\* 234 and reaches the handler of lines 306-308
CompletionInterrupted ==
    /\ pc = "calling"
    /\ running' = FALSE
    /\ last_call' = "interrupted"
    /\ messages' = <<>>
    /\ pc' = "loop"
    /\ UNCHANGED <<event, user_input, conversation_history, returned>>
    /\ LoopFrame

\* line 288 with self.running false: run() returns, main() returns
RunReturns ==
    /\ pc = "loop" /\ ~ running
    /\ Exit(0)
    /\ UNCHANGED <<api_key, url, page, fetched, scrape_error, soup, content,
                   website_content, chatbot, context, conversation_history,
                   running, event, user_input, messages, returned, last_call>>

-----------------------------------------------------------------------------
(* Specifications *)

ScrapeNext ==
    \/ FetchFails
    \/ StatusFails
    \/ FetchParses
    \/ ParseRaises
    \/ ExtractionRaises
    \/ StepTitle
    \/ StepDescription
    \/ StepMainContent
    \/ StepHeadings
    \/ StepLinks
    \/ StepFullText

StartupNext ==
    \/ SetupEnvironment
    \/ EnterUrl
    \/ UrlPromptEnds
    \/ ScrapeFailedExit
    \/ StartSession

SessionNext ==
    \/ ReadExit
    \/ ReadClear
    \/ ReadEmpty
    \/ ReadQuestion
    \/ CompletionReturns
    \/ CompletionFails
    \/ CompletionInterrupted
    \/ RunReturns

Next == StartupNext \/ ScrapeNext \/ SessionNext

\* the whole program, over the session pages
Spec == Init /\ [][Next]_vars

\* the startup sequence up to the entry of the session loop, over every
\* generated page
InitScrape == InitOn(ScrapePages)

ScrapeOnlyNext == StartupNext \/ ScrapeNext

SpecScrape == InitScrape /\ [][ScrapeOnlyNext]_vars

\* scrape_website from its call on a URL that answers, over every page of
\* the extraction families, up to the first completion call of the session
InitExtract ==
    /\ pc = "fetch"
    /\ exit_status = -1
    /\ api_key = <<"sk-test">>
    /\ url = <<"https://", "example.com">>
    /\ page \in ExtractPages
    /\ fetched = NotFetched
    /\ scrape_error = "none"
    /\ soup = NoSoup
    /\ content = EmptyDict
    /\ website_content = None
    /\ chatbot = FALSE
    /\ context = <<>>
    /\ conversation_history = <<>>
    /\ running = FALSE
    /\ event = NoEvent
    /\ user_input = None
    /\ messages = <<>>
    /\ returned = None
    /\ last_call = "none"

ExtractNext ==
    \/ FetchParses
    \/ StepTitle
    \/ StepDescription
    \/ StepMainContent
    \/ StepHeadings
    \/ StepLinks
    \/ StepFullText
    \/ StartSession
    \/ ReadQuestion

SpecExtract == InitExtract /\ [][ExtractNext]_vars

-----------------------------------------------------------------------------
(* Properties *)

Contains(s, tok) == \E i \in 1..Len(s) : s[i] = tok

\* the session loop is in Running / in Ended
Running == chatbot /\ running /\ pc \in {"loop", "calling"}
Ended == chatbot /\ ~ running /\ pc \in {"loop", "exited"}

\* a step of get_response that ends with the completion read / with a failure
AnswerSucceeds == pc = "calling" /\ last_call' = "answered"
AnswerFails == pc = "calling" /\ last_call' = "failed"

\* a step of run() that reads the console: every step taken from the top of
\* a Running loop is one, and event' is what it read
ReadsConsole == pc = "loop" /\ running

\* C1: the history length is always even; a successful answer appends
\* (user, question) then (assistant, answer) and nothing else; a failed
\* answer leaves the history as it was.
C1_HistoryGrowsInPairs ==
    /\ [](Len(conversation_history) % 2 = 0)
    /\ [][AnswerSucceeds =>
            /\ Len(conversation_history') = Len(conversation_history) + 2
            /\ SubSeq(conversation_history', 1, Len(conversation_history))
                   = conversation_history
            /\ conversation_history'[Len(conversation_history) + 1]
                   = [role |-> "user", content |-> user_input]
            /\ conversation_history'[Len(conversation_history) + 2]
                   = [role |-> "assistant", content |-> returned']]_vars
    /\ [][AnswerFails =>
            Len(conversation_history') = Len(conversation_history)]_vars

\* C1 witness: a failed answer after two successful ones
C1_Witness ==
    /\ last_call = "failed"
    /\ Len(conversation_history) = 4
    /\ pc = "loop"

\* C2: the prompt holds exactly the last min(n, 10) history entries, in
\* their order, between the directive and the new question.
C2_PromptWindow ==
    pc = "calling" =>
        LET n == Len(conversation_history)
            k == IF n < 10 THEN n ELSE 10
        IN  /\ Len(messages) = k + 2
            /\ messages[1].role = "system"
            /\ \A i \in 1..k : messages[1 + i] = conversation_history[n - k + i]
            /\ messages[k + 2] = [role |-> "user", content |-> user_input]

\* C2 witness: a call made with more than 10 entries in the history
C2_Witness ==
    /\ pc = "calling"
    /\ Len(conversation_history) = 12
    /\ Len(messages) = 12
    /\ messages[2] = conversation_history[3]
    /\ messages[2] # conversation_history[1]

\* C3: a failed completion gives the caller a string marked as an error and
\* holding the reason, leaves the history as it was, and leaves the loop
\* Running and reading input.
C3_FailSoft ==
    /\ [][AnswerFails =>
            /\ \E e \in ProviderFailures :
                  returned' = <<"Error generating response: ">> \o e
            /\ conversation_history' = conversation_history
            /\ pc' = "loop" /\ running' /\ exit_status' = -1]_vars
    /\ [](last_call = "failed" /\ pc = "loop" /\ running =>
            ENABLED ReadEmpty /\ ENABLED ReadExit /\ ENABLED ReadClear)

\* C3 witness: a timeout reported after a successful exchange, loop Running
C3_Witness ==
    /\ last_call = "failed"
    /\ returned = <<"Error generating response: ", "Request timed out.">>
    /\ Len(conversation_history) = 2
    /\ Running

\* C4: the first answer call after a clear sends the directive and the new
\* question only.
C4_PromptAfterClear ==
    [][last_call = "clear" /\ last_call' = "answer" =>
          /\ Len(messages') = 2
          /\ messages'[1].role = "system"
          /\ messages'[2] = [role |-> "user", content |-> user_input']]_vars

\* C4 witness: a call on an empty history after an answer had been returned
C4_Witness ==
    /\ pc = "calling"
    /\ returned = <<"a1">>
    /\ conversation_history = <<>>
    /\ Len(messages) = 2

\* C5: the message list is one system message, then user and assistant
\* alternating from user to assistant, then the user's new question.
C5_RolesAlternate ==
    pc = "calling" =>
        LET m == Len(messages)
        IN  /\ m >= 2
            /\ messages[1].role = "system"
            /\ \A i \in 2..m : messages[i].role # "system"
            /\ messages[m] = [role |-> "user", content |-> user_input]
            /\ (m - 2) % 2 = 0
            /\ \A i \in 2..(m - 1) :
                  messages[i].role = (IF i % 2 = 0 THEN "user" ELSE "assistant")

\* C5 witness: a call whose window cuts into the history, after a failure
C5_Witness ==
    /\ pc = "calling"
    /\ Len(conversation_history) > 10
    /\ returned # <<"a1">>
    /\ messages[2].role = "user"
    /\ messages[11].role = "assistant"

\* C6 (the claim as stated): a field that is its sentinel has no section in
\* the context, and the context of an all-sentinel record is empty.
C6_SentinelsLeftOut ==
    chatbot =>
        /\ website_content["title"] = TitleSentinel
               => ~ Contains(context, "Title: ")
        /\ website_content["description"] = DescriptionSentinel
               => ~ Contains(context, "Description: ")
        /\ website_content["headings"] = HeadingsSentinel
               => ~ Contains(context, "Headings:")
        /\ website_content["main_content"] = MainContentSentinel
               => ~ Contains(context, "Main Content:")
        /\ website_content["links"] = LinksSentinel
               => ~ Contains(context, "Important Links:")
        /\ (/\ website_content["title"] = TitleSentinel
            /\ website_content["description"] = DescriptionSentinel
            /\ website_content["headings"] = HeadingsSentinel
            /\ website_content["main_content"] = MainContentSentinel
            /\ website_content["links"] = LinksSentinel)
               => context = <<>>

\* C7 (the claim as stated): headings, links and full_text are those of the
\* document as it was parsed.
C7_LaterFieldsSeeParsedDocument ==
    pc = "scraped" /\ website_content # EmptyDict =>
        /\ website_content["headings"] = ExtractHeadings(Parse(page))
        /\ website_content["links"] = ExtractLinks(Parse(page))
        /\ website_content["full_text"] = FullTextOf(StripForFullText(Parse(page)))

IsEndEvent(ev) ==
    \/ ev.signal = "EOFError"
    \/ /\ ev.signal = "none"
       /\ \/ Strip(ev.line) \in {<<"exit">>, <<"EXIT">>, <<"Exit">>}
          \/ Strip(ev.line) \in {<<"quit">>, <<"QUIT">>, <<"Quit">>}

\* C8: the loop starts Running; reading exit, quit or end-of-input ends it;
\* once Ended nothing is read and no Chatbot method is invoked.
C8_EndedIsTerminal ==
    /\ [][chatbot' /\ ~ chatbot => running' /\ pc' = "loop"]_vars
    /\ [][ReadsConsole /\ IsEndEvent(event') => Ended']_vars
    /\ [][Ended =>
            /\ Ended'
            /\ UNCHANGED <<event, user_input, conversation_history, messages,
                           returned, last_call>>]_vars

\* C8 witness: Ended by end-of-input after an exchange
C8_Witness ==
    /\ Ended
    /\ event.signal = "EOFError"
    /\ Len(conversation_history) = 2

\* what C9 takes for a failed startup: no credential, a transport error, an
\* error status, an exception from the parser or an extractor
NoCredential == pc # "setup" /\ api_key \in {None, <<>>}
TransportFailed == fetched.error \in {"ConnectionError", "Timeout"}
ExtractionFailed == scrape_error = "Exception"

\* what must hold once the startup has failed
ExitsWithoutSession ==
    /\ ~ chatbot
    /\ pc \in {"scraped", "exited"}
    /\ pc = "exited" => exit_status = 1
    /\ pc = "scraped" => ENABLED ScrapeFailedExit /\ ~ ENABLED StartSession

\* no parse, no extractor has run
NoExtractorRan == soup = NoSoup /\ content = EmptyDict

\* C9 (as amended): with no credential, a transport error, a 4xx or 5xx
\* status, or an exception in extraction, the process exits with status 1
\* and neither constructs the Chatbot nor enters the loop; after a transport
\* error or a 4xx or 5xx status no extractor has run.
C9_StartupFailureExits ==
    /\ (NoCredential \/ TransportFailed \/ fetched.status >= 400 \/ ExtractionFailed)
           => ExitsWithoutSession
    /\ (NoCredential \/ TransportFailed \/ fetched.status >= 400)
           => NoExtractorRan

\* C9 witness: a 404 ended the process with status 1
C9_Witness ==
    /\ fetched.status = 404
    /\ pc = "exited"
    /\ exit_status = 1

\* C9 (the claim as stated): the same of every status outside 200..299
C9_AnyNon2xxExits ==
    (fetched.error = "none" /\ fetched.status \notin 200..299)
        => ExitsWithoutSession /\ NoExtractorRan

\* a step of run() that reads clear, in any case
ReadsClear ==
    /\ ReadsConsole
    /\ event'.signal = "none"
    /\ Strip(event'.line) \in {<<"clear">>, <<"CLEAR">>, <<"Clear">>}

\* C10: clear empties the history from any state and leaves the context as
\* it was; clearing what a clear left changes nothing.
C10_ClearEmptiesAndIsIdempotent ==
    [][ReadsClear =>
          /\ conversation_history' = <<>>
          /\ context' = context
          /\ website_content' = website_content
          /\ ClearHistory(conversation_history') = conversation_history'
          /\ ClearHistory(ClearHistory(conversation_history))
                 = ClearHistory(conversation_history)]_vars

\* C10 witness: a clear that followed a returned answer, context in place
C10_Witness ==
    /\ last_call = "clear"
    /\ returned = <<"a1">>
    /\ conversation_history = <<>>
    /\ context # <<>>
    /\ pc = "loop"

\* scrape_website has returned a record
Scraped == pc = "scraped" /\ website_content # EmptyDict

\* the anchors of tree t that carry an href, in document order
AnchorsWithHref(t) ==
    Ascending({i \in t.alive : t.nodes[i].tag = "a" /\ t.nodes[i].href # None})

\* the links field the claim gives a tree: the entries of the anchors among
\* the first 15 with an href whose text is not empty and whose href is not a
\* fragment, in order; the sentinel when there is none
WindowLinks(t) ==
    LET window == SubSeq(AnchorsWithHref(t), 1, Min(15, Len(AnchorsWithHref(t))))
        kept == SelectSeq(window,
                    LAMBDA i : /\ Strip(t.nodes[i].text) # <<>>
                               /\ t.nodes[i].href[1] # "#")
        entry(i) == Strip(t.nodes[i].text) \o <<": ">> \o t.nodes[i].href
    IN  IF kept = <<>> THEN LinksSentinel
        ELSE Join(<<"\n">>, [k \in 1..Len(kept) |-> entry(kept[k])])

\* C11 (the claim as stated): the links field of a record is the window's
\* links of the document: of its first 15 anchors with an href, those with
\* text and a href that is no fragment, in order, and the sentinel if none.
C11_LinksOfDocumentWindow ==
    Scraped => website_content["links"] = WindowLinks(Parse(page))

\* what does hold: the same of the tree as _extract_links finds it
LinksOfWindowAsFound ==
    pc = "full_text" => content["links"] = WindowLinks(soup)

\* the window is passed: a page with more than 15 anchors with an href, of
\* which one past the 15th has text and a href that is no fragment
LinksPastWindow ==
    /\ pc = "full_text"
    /\ Len(AnchorsWithHref(soup)) > 15
    /\ \E k \in 16..Len(AnchorsWithHref(soup)) :
          LET n == soup.nodes[AnchorsWithHref(soup)[k]]
          IN  Strip(n.text) # <<>> /\ n.href[1] # "#"

SixKeys == {"title", "description", "main_content", "headings", "links", "full_text"}

SentinelOf(k) ==
    CASE k = "title" -> TitleSentinel
      [] k = "description" -> DescriptionSentinel
      [] k = "main_content" -> MainContentSentinel
      [] k = "headings" -> HeadingsSentinel
      [] k = "links" -> LinksSentinel
      [] k = "full_text" -> FullTextSentinel

\* C12 (the claim as stated): a record has the six keys, and every field is
\* its sentinel or a non-empty string.
C12_FieldsSentinelOrNonEmpty ==
    Scraped =>
        /\ DOMAIN website_content = SixKeys
        /\ \A k \in SixKeys :
              \/ website_content[k] = SentinelOf(k)
              \/ website_content[k] \notin {None, <<>>}

\* the heading elements of one level of tree t, in document order
LevelHeadings(t, level) ==
    LET hs == Ascending({i \in t.alive :
                            t.nodes[i].tag = <<"h1", "h2", "h3", "h4", "h5", "h6">>[level]})
    IN  [k \in 1..Len(hs) |->
            <<"H", <<"1", "2", "3", "4", "5", "6">>[level], ": ">>
            \o Strip(t.nodes[hs[k]].text)]

\* the headings field the claim gives a tree: the first 20 of its level-1
\* headings, then its level-2 headings, and so on up to level 6
CappedHeadings(t) ==
    LET all == LevelHeadings(t, 1) \o LevelHeadings(t, 2) \o LevelHeadings(t, 3)
               \o LevelHeadings(t, 4) \o LevelHeadings(t, 5) \o LevelHeadings(t, 6)
    IN  IF all = <<>> THEN HeadingsSentinel
        ELSE Join(<<"\n">>, SubSeq(all, 1, Min(20, Len(all))))

\* C13 (the claim as stated): the headings field of a record is the first 20
\* entries of the document's headings taken level by level, each level in
\* document order.
C13_HeadingsOfDocumentCapped ==
    Scraped => website_content["headings"] = CappedHeadings(Parse(page))

\* what does hold: the same of the tree as _extract_headings finds it
HeadingsCappedAsFound ==
    pc = "links" => content["headings"] = CappedHeadings(soup)

\* the cap cuts: more than 20 headings, of a higher level before a lower
HeadingsPastCap ==
    /\ pc = "links"
    /\ Cardinality({i \in soup.alive :
                       soup.nodes[i].tag \in {"h1", "h2", "h3", "h4", "h5", "h6"}}) > 20
    /\ \E i, j \in soup.alive :
          i < j /\ soup.nodes[i].tag = "h2" /\ soup.nodes[j].tag = "h1"

\* C14: main_content has at most 3000 characters and full_text at most 5000,
\* and where the text the extractor took from the tree is longer, the field
\* is its first 3000 (5000) characters.
C14_FieldsTruncated ==
    /\ pc = "headings" =>
          LET text == GetText(soup, MainContentElement(soup), <<"\n">>)
          IN  /\ Len(content["main_content"]) <= 3000
              /\ Len(text) > 3000 => content["main_content"] = SubSeq(text, 1, 3000)
    /\ Scraped =>
          LET text == FullTextClean(soup)
          IN  /\ Len(website_content["main_content"]) <= 3000
              /\ Len(website_content["full_text"]) <= 5000
              /\ Len(text) > 5000 => website_content["full_text"] = SubSeq(text, 1, 5000)

\* a record of a page whose text is longer than 5000 characters: both fields
\* are cut, to 3000 and to 5000 characters
C14_Witness ==
    /\ Scraped
    /\ Len(FullTextClean(soup)) > 5000
    /\ Len(website_content["main_content"]) = 3000
    /\ Len(website_content["full_text"]) = 5000

\* the main_content field the priority order gives page d, the element with
\* a class naming "content" looked for among the elements with a tag of
\* tags: the text of the first main element, else of the first article,
\* else of the first such element, else of the body; elements inside a
\* header, nav or footer do not count
PriorityMainContent(d, tags) ==
    LET kept == SelectSeq(d.blocks,
                    LAMBDA b : b.wrap.tag \notin {"header", "nav", "footer"})
        mains == SelectSeq(kept, LAMBDA b : b.wrap.tag = "main")
        articles == SelectSeq(kept, LAMBDA b : b.wrap.tag = "article")
        classed == SelectSeq(kept,
                       LAMBDA b : b.wrap.tag \in tags /\ ClassMatches(b.wrap))
        strings == SelectSeq([k \in 1..Len(kept) |-> Strip(kept[k].leaf.text)],
                       LAMBDA x : x # <<>>)
        text == IF mains # <<>> THEN Strip(mains[1].leaf.text)
                ELSE IF articles # <<>> THEN Strip(articles[1].leaf.text)
                ELSE IF classed # <<>> THEN Strip(classed[1].leaf.text)
                ELSE IF d.body THEN Join(<<"\n">>, strings)
                ELSE <<>>
    IN  IF text = <<>> THEN MainContentSentinel
        ELSE SubSeq(text, 1, Min(3000, Len(text)))

WrapTags == {w.tag : w \in Wraps \cup MainWraps}

\* C18 (amended): main_content is the text of the first main element, else
\* of the first article, else of the first div whose class list has a name
\* containing "content" in any letter case, else of the body; and the
\* sentinel when that text is empty or there is no such element.
C18_MainContentPriority ==
    Scraped => website_content["main_content"] = PriorityMainContent(page, {"div"})

\* a div with such a class comes first and an article after it, and the
\* field is the article's text
C18_Witness ==
    /\ Scraped
    /\ Len(page.blocks) = 2
    /\ page.blocks[1].wrap.tag = "div" /\ ClassMatches(page.blocks[1].wrap)
    /\ page.blocks[2].wrap.tag = "article"
    /\ page.blocks[1].leaf.text = <<"text", "1", " ">>
    /\ website_content["main_content"] = <<"text", "2">>

\* C18 (the claim as stated): the third candidate is the first element of
\* any tag whose class list has a name containing "content".
C18_AnyTagWithContentClass ==
    Scraped => website_content["main_content"] = PriorityMainContent(page, WrapTags)

\* the line read by this step of run(), trimmed
TrimmedLine == Strip(event'.line)

\* this step of run() reads a line that is neither empty nor, in any letter
\* case, exit, quit or clear
ReadsQuestion ==
    /\ ReadsConsole
    /\ event'.signal = "none"
    /\ TrimmedLine # <<>>
    /\ Lower(TrimmedLine) \notin {<<"exit">>, <<"quit">>, <<"clear">>}

\* C15: a step of the session loop invokes answer exactly when the trimmed
\* line is not empty and is not exit, quit or clear in any letter case; an
\* empty line invokes nothing, leaves the history as it was and the loop
\* Running; clear in any letter case invokes clear and not answer.
C15_DispatchTable ==
    /\ [][ReadsConsole =>
            ((pc' = "calling" /\ last_call' = "answer") <=> ReadsQuestion)]_vars
    /\ [][ReadsConsole /\ event'.signal = "none" /\ TrimmedLine = <<>> =>
            /\ UNCHANGED <<conversation_history, last_call, messages, returned>>
            /\ pc' = "loop" /\ running']_vars
    /\ [][ReadsConsole /\ event'.signal = "none"
           /\ Lower(TrimmedLine) = <<"clear">> =>
            /\ last_call' = "clear" /\ conversation_history' = <<>>
            /\ messages' = <<>>
            /\ pc' = "loop" /\ running']_vars

\* CLEAR has been read after an answer was given, and cleared the history
C15_Witness ==
    /\ pc = "loop" /\ running
    /\ event = [signal |-> "none", line |-> <<"CLEAR", " ">>]
    /\ last_call = "clear"
    /\ conversation_history = <<>>
    /\ returned = <<"a1">>

\* C16: an interrupt during the completion call gives run() no error string:
\* what get_response returned last stays, the history stays, and the loop is
\* Ended at once and stays so.
C16_InterruptUnwindsToEnded ==
    /\ [][pc = "calling" /\ last_call' = "interrupted" =>
            /\ UNCHANGED <<conversation_history, returned>>
            /\ pc' = "loop" /\ ~ running']_vars
    /\ [](last_call = "interrupted" => Ended)

\* the second question's call was interrupted: one exchange stored, the
\* first answer still the last thing returned
C16_Witness ==
    /\ last_call = "interrupted"
    /\ pc = "loop" /\ ~ running
    /\ Len(conversation_history) = 2
    /\ returned = <<"a1">>

\* c is a run of consecutive characters of s
Embeds(s, c) ==
    \E i \in 0..(Len(s) - Len(c)) : SubSeq(s, i + 1, i + Len(c)) = c

\* C17: no step of the session changes the context set at its start, and
\* the directive of every call embeds it whole.
C17_ContextFixed ==
    /\ [][chatbot => context' = context]_vars
    /\ [](chatbot => context = FormatContentForContext(website_content))
    /\ [](pc = "calling" =>
            /\ messages[1].role = "system"
            /\ Embeds(messages[1].content, context))

\* a call made with an empty history after a failed answer, on the Acme page
C17_Witness ==
    /\ pc = "calling"
    /\ conversation_history = <<>>
    /\ returned # None /\ returned # <<"a1">>
    /\ Contains(context, "Acme")
    /\ Len(context) > 10

IsPrefix(s, t) == Len(s) <= Len(t) /\ SubSeq(t, 1, Len(s)) = s

\* C19: but for a clear, every step leaves the stored history a prefix of
\* what it becomes, an answer call among them, however long the history is.
C19_HistoryAppendOnly ==
    /\ [][~ ReadsClear =>
            IsPrefix(conversation_history, conversation_history')]_vars
    /\ [][pc = "calling" =>
            IsPrefix(conversation_history, conversation_history')]_vars

\* more than 10 entries stored
C19_Witness ==
    /\ last_call = "answered"
    /\ Len(conversation_history) > 10

\* C20: once the session has started the context is not empty, and a call's
\* directive holds more than its fixed text.
C20_ContextNeverEmpty ==
    /\ chatbot => context # <<>>
    /\ pc = "calling" => Len(messages[1].content) > Len(SystemMessage(<<>>))

\* a call in a session on a record whose fields are all sentinels
C20_Witness ==
    /\ pc = "calling"
    /\ \A k \in SixKeys : website_content[k] = SentinelOf(k)
    /\ context # <<>>

====
